---- MODULE Spec2Model ----
(***************************************************************************)
(* Resumable collection cursor of the G2B contract collector.             *)
(*                                                                         *)
(* Two programs of the repository are modelled:                           *)
(*   - main() of collectors/g2b/collect_all.py (table sink, checkpoint on *)
(*     Drive), with G2BClientImproved.fetch_data as the page fetcher and  *)
(*     the retry decorator of utils/api_error_handler.py;                 *)
(*   - collect_with_resume() of api-collector/collectors/g2b/             *)
(*     collect_all.py (file sink, checkpoint in a local file).            *)
(* The categories are named by the operation suffix of the endpoint:      *)
(* "Thng" (goods), "Cnstwk" (construction), "Servc" (services),           *)
(* "Frgcpt" (foreign capital).                                            *)
(***************************************************************************)
EXTENDS Integers, Sequences, FiniteSets, TLC

VARIABLES
    pc,                         \* position of main(): boot, loop, fetch, insert, advance, upload, notify, exit, dead
    progress,                   \* the in-memory checkpoint dict of main()
    limit,                      \* <<limit_year, limit_month>> computed at the start of the run
    all_items,                  \* fetch_data: items accumulated for the period (natural keys, 0 = no key)
    page_no,                    \* fetch_data: page being requested
    api_calls_used,             \* fetch_data: successful page requests of the period
    attempt,                    \* retry_on_error wrapper of _fetch_page: attempt counter
    clientCalls,                \* client.daily_api_calls
    consecutive_zero_inserts,   \* main(): streak of periods with data and zero inserts
    errors,                     \* main(): kinds of the entries of the run's error list
    db,                         \* contracts table: the natural keys stored
    localFile,                  \* progress.json in the working directory
    drive,                      \* the remote checkpoint slot
    slack,                      \* kinds of the messages handed to the notifier in this run
    exitCode,                   \* process exit code (-1 while running)
    run,                        \* number of the run
    sent,                       \* observer: HTTP requests issued in this run
    spent,                      \* observer: HTTP requests issued in the earlier runs
    sentPeriod,                 \* observer: HTTP requests issued for the period in progress
    callsAtTop,                 \* observer: daily_api_calls when the period was started
    periodStatus,               \* observer: how the fetch-and-persist of the period in progress ended
    lastFetched,                \* observer: the period of the previous fetch of this run
    stopReason,                 \* observer: why the loop of this run stopped
    passed,                     \* observer: the last period the cursor of main() advanced past, in any run
    lastReply,                  \* observer: the reply to the request just made, until the next step of main()
    rpc,                        \* position of collect_with_resume()
    rprogress,                  \* its in-memory progress dict
    PROGRESS_FILE,              \* data/logs/progress.json
    name_idx,                   \* index of the category the outer loop is at
    ryear,                      \* year the year loop is at
    rmonth,                     \* month the month loop is at
    year_data,                  \* pages collected for the year in this run
    month_items,                \* get_month_data: all_items of the month in progress
    page,                       \* get_month_data: page being requested
    rattempt,                   \* get_month_data: attempt of the page
    files,                      \* data/raw: content of the file of each (category, year)
    thread_ts,                  \* what the start message's send returned: a timestamp or None
    rslack,                     \* kinds of the messages collect_with_resume() sent in this run
    today,                      \* the calendar day (a day number)
    rrun,                       \* number of the run
    rsent,                      \* observer: HTTP requests issued in this run
    rspent,                     \* observer: HTTP requests issued in the earlier runs
    rfetched,                   \* observer: the period of the latest get_month_data call of this run
    rstop,                      \* observer: why the run ended
    rcallsAtStart,              \* observer: daily_api_calls as read at the start of the run
    wfrom,                      \* the period get_next_period was last applied to
    wto,                        \* the period it returned
    progress_backup,            \* progress_backup.json as the current run wrote it (None: not written)
    mtoday,                     \* main(): today (a day number); the runs modelled share one date
    pgState,                    \* page loop of fetch_data on its own: off, paging, returned
    pgTotal,                    \* items the provider holds for the period
    pgSize,                     \* numOfRows, the page size requested
    pgPage,                     \* page_no
    pgItems,                    \* len(all_items)
    pgCalls,                    \* api_calls_used
    pgLast,                     \* number of items of the page fetched last
    tblState,                   \* insert_contracts on its own: off, ready, once, twice
    tblRows,                    \* rows, the argument of the calls
    tblBefore,                  \* the keys in the table before the last call
    tblTable,                   \* the keys in the table
    tblReturned,                \* what the last call returned
    upPc,                       \* upload_progress.py on its own: position in upload_progress()
    upLocal,                    \* data/logs/progress.json: 0 when missing, else the checkpoint it holds
    upRemote,                   \* the files named progress.json in the Drive folder, by content
    upPrev,                     \* the folder when upload_progress() started
    upTodo,                     \* files listed and not yet deleted
    dbRow,                      \* row id = 1 of table progress: 0 when missing, else its checkpoint
    dbPrev,                     \* the row before the last save_progress
    dbNew,                      \* the checkpoint the last save_progress was given
    dbSaves,                    \* calls of save_progress made
    rtState,                    \* retry_on_error on its own: off, running, returned, raised
    rtMax,                      \* max_retries of the wrapper
    rtAttempt,                  \* attempt of the wrapper
    rtHistory,                  \* the errors of the invocations made, NoError for a success
    rtSafe,                     \* the wrapper was called by safe_api_call
    rtResult                    \* "value", "default", or the error the call let out

vars == <<pc, progress, limit, all_items, page_no, api_calls_used, attempt, clientCalls,
          consecutive_zero_inserts, errors, db, localFile, drive, slack,
          exitCode, run, sent, spent, sentPeriod, callsAtTop, periodStatus,
          lastFetched, stopReason, passed, lastReply,
          rpc, rprogress, PROGRESS_FILE, name_idx, ryear, rmonth, year_data, month_items,
          page, rattempt, files, rslack, thread_ts, today, rrun, rsent, rspent, rfetched, rstop,
          rcallsAtStart, wfrom, wto, mtoday, progress_backup,
          pgState, pgTotal, pgSize, pgPage, pgItems, pgCalls, pgLast,
          tblState, tblRows, tblBefore, tblTable, tblReturned,
          upPc, upLocal, upRemote, upPrev, upTodo, dbRow, dbPrev, dbNew, dbSaves,
          rtState, rtMax, rtAttempt, rtHistory, rtSafe, rtResult>>

mainVars == <<pc, progress, limit, all_items, page_no, api_calls_used, attempt, clientCalls,
              consecutive_zero_inserts, errors, db, localFile, drive, slack,
              exitCode, run, sent, spent, sentPeriod, callsAtTop, periodStatus,
              lastFetched, stopReason, passed, lastReply, mtoday, progress_backup>>

resumeVars == <<rpc, rprogress, PROGRESS_FILE, name_idx, ryear, rmonth, year_data, month_items,
                page, rattempt, files, rslack, thread_ts, today, rrun, rsent, rspent, rfetched, rstop,
                rcallsAtStart>>

walkerVars == <<wfrom, wto>>

pagerVars == <<pgState, pgTotal, pgSize, pgPage, pgItems, pgCalls, pgLast>>

tblVars == <<tblState, tblRows, tblBefore, tblTable, tblReturned>>

slotVars == <<upPc, upLocal, upRemote, upPrev, upTodo, dbRow, dbPrev, dbNew, dbSaves>>

retryVars == <<rtState, rtMax, rtAttempt, rtHistory, rtSafe, rtResult>>

(***************************************************************************)
(* Bounds of the model and scaled-down limits of the program.             *)
(***************************************************************************)
QuotaScale == 2             \* one unit of the model stands for 500 calls
daily_limit == QuotaScale           \* G2BClientImproved.daily_limit = 500
max_pages == QuotaScale             \* fetch_data(max_pages = 500)
MAX_API_CALLS == 2 * QuotaScale     \* MAX_API_CALLS = 1000
page_size == QuotaScale - 1         \* execute_values(page_size = 500): a period can span batches
ZERO_INSERT_ALARM == 2      \* the program alarms at 50
MaxKey == 1                 \* natural keys 1..MaxKey; 0 stands for a missing key
MaxSent == 4                \* requests issued per behaviour
MaxRuns == 2                \* runs per behaviour
max_retries == 3            \* retry_on_error(max_retries = 3) on _fetch_page
NowYear == 2025             \* datetime.now(tz).year
NowMonth == 2               \* datetime.now(tz).month
FirstYear == NowYear - 1
MAX_DAILY_CALLS == QuotaScale       \* MAX_DAILY_CALLS = 500
StartYear == 2005           \* the year every category starts at
month_max_retries == 3      \* get_month_data(max_retries = 3)
MaxSentR == 5               \* requests collect_with_resume() issues per behaviour
MaxRunsR == 3               \* runs of collect_with_resume() per behaviour
MaxDay == 2                 \* calendar days per behaviour

Keys == 1..MaxKey
Years == FirstYear..NowYear

(***************************************************************************)
(* Period walker.                                                          *)
(***************************************************************************)
jobs == <<"Thng", "Cnstwk", "Servc", "Frgcpt">>

JobSet == {jobs[i] : i \in 1..Len(jobs)}

index(job) == CHOOSE i \in 1..Len(jobs) : jobs[i] = job

\* Position of a period in the order the walker produces: year, category, month.
Rank(p) == (p[2] * Len(jobs) + (index(p[1]) - 1)) * 12 + (p[3] - 1)

\* A walker with the category outermost: the years of a category before the next category.
get_next_period_by_category(job, year, month) ==
    IF month < 12
    THEN <<job, year, month + 1>>
    ELSE IF year < NowYear
         THEN <<job, year + 1, 1>>
         ELSE IF index(job) < Len(jobs)
              THEN <<jobs[index(job) + 1], FirstYear, 1>>
              ELSE <<jobs[1], year + 1, 1>>

\* A walker that forgets to reset the month when the category changes.
get_next_period_keeps_month(job, year, month) ==
    IF month < 12
    THEN <<job, year, month + 1>>
    ELSE IF index(job) < Len(jobs)
         THEN <<jobs[index(job) + 1], year, month>>
         ELSE <<jobs[1], year + 1, 1>>

\* A walker that starts the same year again after the last category.
get_next_period_same_year(job, year, month) ==
    IF month < 12
    THEN <<job, year, month + 1>>
    ELSE IF index(job) < Len(jobs)
         THEN <<jobs[index(job) + 1], year, 1>>
         ELSE <<jobs[1], year, 1>>

get_next_period(job, year, month) ==
    IF month < 12
    THEN <<job, year, month + 1>>
    ELSE IF index(job) < Len(jobs)
         THEN <<jobs[index(job) + 1], year, 1>>
         ELSE <<jobs[1], year + 1, 1>>

(***************************************************************************)
(* Checkpoint records.                                                     *)
(***************************************************************************)
None == [current_job |-> "None", current_year |-> 0, current_month |-> 0,
         daily_api_calls |-> 0, total_collected |-> 0, last_run_date |-> 0]

Checkpoint(j, y, m, c, t) ==
    [current_job |-> j, current_year |-> y, current_month |-> m,
     daily_api_calls |-> c, total_collected |-> t, last_run_date |-> 0]

Cursor(p) == <<p.current_job, p.current_year, p.current_month>>

NoPeriod == <<"None", 0, 0>>

(***************************************************************************)
(* Error classification and retry (utils/api_error_handler.py).           *)
(***************************************************************************)
RETRYABLE_STATUS_CODES == {408, 429, 500, 502, 503, 504}

RETRYABLE_ERROR_TYPES == {"NETWORK_ERROR", "TIMEOUT_ERROR", "RATE_LIMIT_ERROR"}

NoError == [cls |-> "none", error_type |-> "none", status_code |-> 0]

Err(cls, type, status) == [cls |-> cls, error_type |-> type, status_code |-> status]

\* A retry decision that treats a rate-limit error as final.
should_retry_not_rate_limit(error, att, maxr) ==
    IF att >= maxr
    THEN FALSE
    ELSE IF error.error_type = "HTTP_ERROR"
         THEN error.status_code \in RETRYABLE_STATUS_CODES
         ELSE error.error_type \in (RETRYABLE_ERROR_TYPES \ {"RATE_LIMIT_ERROR"})

\* The exceptions of requests that should_retry accepts as they are.
RETRYABLE_REQUESTS_ERRORS ==
    {"requests.ConnectionError", "requests.Timeout", "requests.ChunkedEncodingError"}

\* A retry decision that also repeats after an authentication error.
should_retry_auth_too(error, att, maxr) ==
    IF att >= maxr
    THEN FALSE
    ELSE IF error.error_type = "HTTP_ERROR"
         THEN error.status_code \in RETRYABLE_STATUS_CODES
         ELSE error.error_type \in RETRYABLE_ERROR_TYPES \cup {"AUTH_ERROR"}

\* error_type "NOT_API" marks an exception that is no APIException.
should_retry(error, att, maxr) ==
    IF att >= maxr
    THEN FALSE
    ELSE IF error.error_type = "HTTP_ERROR"
         THEN error.status_code \in RETRYABLE_STATUS_CODES
         ELSE IF error.error_type # "NOT_API"
              THEN error.error_type \in RETRYABLE_ERROR_TYPES
              ELSE error.cls \in RETRYABLE_REQUESTS_ERRORS

handle_requests_error(exc) ==
    IF exc = "Timeout"
    THEN Err("TimeoutError", "TIMEOUT_ERROR", 0)
    ELSE Err("NetworkError", "NETWORK_ERROR", 0)

handle_http_response(status) ==
    IF status = 401 \/ status = 403
    THEN Err("AuthenticationError", "AUTH_ERROR", 0)
    ELSE IF status = 429
         THEN Err("RateLimitError", "RATE_LIMIT_ERROR", 0)
         ELSE IF status >= 400
              THEN Err("HTTPError", "HTTP_ERROR", status)
              ELSE NoError

\* The error _check_api_error raises for the result code of a parsed body.
check_api_error(code) ==
    IF code = "00" \/ code = "absent"
    THEN NoError
    ELSE IF code \in {"30", "31", "32", "33"}
         THEN Err("ValidationError", "VALIDATION_ERROR", 0)
         ELSE IF code = "99"
              THEN Err("RateLimitError", "RATE_LIMIT_ERROR", 0)
              ELSE Err("APIResponseError", "API_ERROR", 0)

(***************************************************************************)
(* What the provider can answer to one HTTP request.                      *)
(***************************************************************************)
Resp(exc, status, code, items) == [exc |-> exc, status |-> status, code |-> code, items |-> items]

PageItems == {<<k>> : k \in 0..MaxKey}

NoReply == Resp("", 0, "none", <<>>)

Responses ==
    {Resp(e, 0, "", <<>>) : e \in {"Timeout", "ConnectionError"}}
    \cup {Resp("", s, "", <<>>) : s \in {401, 404, 429, 500}}
    \cup {Resp("", 200, c, <<>>) : c \in {"malformed", "03", "05", "30", "99", "00"}}
    \cup {Resp("", 200, "00", it) : it \in PageItems}

\* The outcome of one invocation of _fetch_page's body: the error it raises, or NoError.
fetch_page_error(resp) ==
    IF resp.exc # ""
    THEN handle_requests_error(resp.exc)
    ELSE handle_http_response(resp.status)

(***************************************************************************)
(* One HTTP request of fetch_data: what the page loop does with the reply. *)
(*   kind "retry":  the retry wrapper issues the same page again          *)
(*   kind "more":   items collected, next page                            *)
(*   kind "return": the page loop ends and fetch_data returns             *)
(*   kind "raise":  fetch_data raises err                                 *)
(***************************************************************************)
ReRaised == {"ValidationError", "RateLimitError", "APIResponseError"}

Step(kind, err, items, used, status) ==
    [kind |-> kind, err |-> err, items |-> items, used |-> used, status |-> status]

fetch_data_step(resp, items, used, att, pg) ==
    LET err == fetch_page_error(resp) IN
    IF err # NoError
    THEN IF should_retry(err, att, max_retries)
         THEN Step("retry", err, items, used, "none")
         ELSE IF err.cls \in ReRaised
              THEN Step("raise", err, items, used, "raised")
              ELSE Step("return", err, items, used, "partial")
    ELSE IF resp.code = "malformed"
         THEN Step("return", Err("ParseError", "PARSE_ERROR", 0), items, used + 1, "partial")
         ELSE IF check_api_error(resp.code) # NoError
              THEN Step("raise", check_api_error(resp.code), items, used + 1, "raised")
              ELSE IF resp.items = <<>>
                   THEN Step("return", NoError, items, used + 1,
                             IF items = <<>> THEN "empty" ELSE "complete")
                   ELSE IF pg + 1 <= max_pages
                        THEN Step("more", NoError, items \o resp.items, used + 1, "none")
                        ELSE Step("return", NoError, items \o resp.items, used + 1, "truncated")

(***************************************************************************)
(* Table sink (utils/db.py) and row extraction.                           *)
(***************************************************************************)
\* A conversion that makes a row of every item.
parse_items_to_rows_all(items) == items

\* parse_items_to_rows keeps the items that carry a natural key.
parse_items_to_rows(items) == SelectSeq(items, LAMBDA k : k # 0)

SeqKeys(rows) == {rows[i] : i \in 1..Len(rows)}

\* Start of the last batch execute_values sends when it pages the rows.
LastBatchStart(n) == ((n - 1) \div page_size) * page_size + 1

\* The count a driver without a row count gives: every row sent.
insert_contracts_count_attempted(rows, table) == Len(rows)

\* insert_contracts returns cur.rowcount, the row count of the last statement
\* executed: the rows the last batch newly inserted.
insert_contracts_count(rows, table) ==
    IF rows = <<>>
    THEN 0
    ELSE LET first == LastBatchStart(Len(rows))
             before == table \cup {rows[i] : i \in 1..(first - 1)}
         IN  Cardinality({rows[i] : i \in first..Len(rows)} \ before)

insert_contracts_table(rows, table) == table \cup SeqKeys(rows)

(***************************************************************************)
(* collect_with_resume() of api-collector/collectors/g2b/collect_all.py.  *)
(***************************************************************************)
\* The keys of the category dict in insertion order; "Done" stands for the
\* marker the loop stores after the last category.
TaskList == <<"Thng", "Servc", "Cnstwk">>

TaskSet == {TaskList[i] : i \in 1..Len(TaskList)}

TaskIndex(name) == CHOOSE i \in 1..Len(TaskList) : TaskList[i] = name

RCheckpoint(j, y, m, c, d, t) ==
    [current_job |-> j, current_year |-> y, current_month |-> m,
     daily_api_calls |-> c, last_run_date |-> d, total_collected |-> t]

NoFile == RCheckpoint("None", 0, 0, 0, 0, 0)

\* A load that moves the date forward and keeps the counter.
load_progress_keeps_calls(file, day) ==
    IF file # NoFile
    THEN [file EXCEPT !.last_run_date = day]
    ELSE RCheckpoint(TaskList[1], StartYear, 1, 0, day, 0)

load_progress(file, day) ==
    IF file # NoFile
    THEN IF file.last_run_date # day
         THEN [file EXCEPT !.daily_api_calls = 0, !.last_run_date = day]
         ELSE file
    ELSE RCheckpoint(TaskList[1], StartYear, 1, 0, day, 0)

\* A page kept by get_month_data is named by its period and page number.
PageTag(name, y, m, pg) == <<name, y, m, pg>>

\* save_year_file opens the file of the (category, year) for writing and
\* writes the items of the pages it is given.
save_year_file(fs, name, y, data) ==
    {f \in fs : ~(f.name = name /\ f.year = y)} \cup {[name |-> name, year |-> y, data |-> data]}

\* A quota test that lets one more call through.
quota_reached_late(calls) == calls > MAX_DAILY_CALLS

quota_reached(calls) == calls >= MAX_DAILY_CALLS

\* What one requests.get of get_month_data can end in.
Outcomes == {"exception", "error", "items", "empty"}

\* What a call of send_slack_message can meet.
SendOutcomes == {"no_token", "exception", "not_ok", "ok"}

\* A notifier that lets the error of the transport out.
send_slack_message_raises(outcome) ==
    [ts |-> IF outcome = "ok" THEN "ts" ELSE "None", raised |-> outcome = "exception"]

\* send_slack_message returns None without a token (lines 39-40), after an
\* exception of the post or of the decoding (lines 68-70) and after a reply
\* that is not ok (lines 62-64); otherwise the timestamp of the message.
send_slack_message(outcome) ==
    [ts |-> IF outcome = "ok" THEN "ts" ELSE "None", raised |-> FALSE]

RetryOff ==
    /\ rtState = "off"
    /\ rtMax = 0
    /\ rtAttempt = 0
    /\ rtHistory = <<>>
    /\ rtSafe = FALSE
    /\ rtResult = "none"

SlotOff ==
    /\ upPc = "off"
    /\ upLocal = 0
    /\ upRemote = <<>>
    /\ upPrev = <<>>
    /\ upTodo = 0
    /\ dbRow = 0
    /\ dbPrev = 0
    /\ dbNew = 0
    /\ dbSaves = 0

TableOff ==
    /\ tblState = "off"
    /\ tblRows = <<>>
    /\ tblBefore = {}
    /\ tblTable = {}
    /\ tblReturned = 0

PagerOff ==
    /\ pgState = "off"
    /\ pgTotal = 0
    /\ pgSize = 0
    /\ pgPage = 0
    /\ pgItems = 0
    /\ pgCalls = 0
    /\ pgLast = 0

WalkerOff ==
    /\ wfrom = NoPeriod
    /\ wto = NoPeriod

ResumeOff ==
    /\ rpc = "off"
    /\ rprogress = NoFile
    /\ PROGRESS_FILE = NoFile
    /\ name_idx = 1
    /\ ryear = 0
    /\ rmonth = 0
    /\ year_data = <<>>
    /\ month_items = <<>>
    /\ page = 1
    /\ rattempt = 0
    /\ files = {}
    /\ rslack = {}
    /\ thread_ts = "None"
    /\ today = 1
    /\ rrun = 1
    /\ rsent = 0
    /\ rspent = 0
    /\ rfetched = NoPeriod
    /\ rstop = "none"
    /\ rcallsAtStart = 0
    /\ WalkerOff

(***************************************************************************)
(* main() of collectors/g2b/collect_all.py.                               *)
(***************************************************************************)
InitCursors ==
    {<<jobs[1], FirstYear, 12>>, <<jobs[Len(jobs)], FirstYear, 11>>, <<jobs[Len(jobs)], FirstYear, 12>>,
     <<jobs[Len(jobs)], NowYear, NowMonth - 1>>}

InitCheckpoints == {Checkpoint(c[1], c[2], c[3], 0, 0) : c \in InitCursors}

Init ==
    /\ pc = "boot"
    /\ progress = None
    /\ limit = <<0, 0>>
    /\ all_items = <<>>
    /\ page_no = 1
    /\ api_calls_used = 0
    /\ attempt = 0
    /\ clientCalls = 0
    /\ consecutive_zero_inserts = 0
    /\ errors = {}
    /\ db \in SUBSET Keys
    /\ localFile = None
    /\ drive \in InitCheckpoints
    /\ slack = {}
    /\ exitCode = -1
    /\ run = 1
    /\ sent = 0
    /\ spent = 0
    /\ sentPeriod = 0
    /\ callsAtTop = 0
    /\ periodStatus = "none"
    /\ lastFetched = NoPeriod
    /\ stopReason = "none"
    /\ passed = NoPeriod
    /\ lastReply = NoReply
    /\ mtoday = 1
    /\ progress_backup = None
    /\ ResumeOff
    /\ PagerOff
    /\ TableOff
    /\ SlotOff
    /\ RetryOff

fetchVars == <<all_items, page_no, api_calls_used, attempt>>
sinkVars == <<db, localFile, drive>>
observers == <<sent, spent, sentPeriod, callsAtTop, periodStatus, lastFetched, stopReason, passed,
              lastReply>>

\* The month before the current one: the end of the collection range.
limit_of(nowYear, nowMonth) ==
    IF nowMonth = 1 THEN <<nowYear - 1, 12>> ELSE <<nowYear, nowMonth - 1>>

\* A finally block that writes nothing.
write_backup_never(p, old) == old

\* Lines 328-336: the finally block writes progress_backup.json when main()
\* holds a checkpoint (the write is taken to succeed).
write_backup(p, old) == IF p # None THEN p ELSE old

\* Lines 146-173: a missing API key, a failed Drive connection test or a failed
\* download of progress.json ends the run in the handlers at the end of main().
StartFails ==
    /\ pc = "boot"
    /\ \E why \in {"no_api_key", "no_drive", "no_progress"} :
          /\ stopReason' = why
          /\ slack' = slack \cup {"fatal"}
    /\ pc' = "exit"
    /\ exitCode' = 1
    /\ UNCHANGED <<progress, limit, fetchVars, clientCalls, consecutive_zero_inserts, errors,
                   sinkVars, run, sent, spent, sentPeriod, callsAtTop, periodStatus, lastFetched,
                   passed>>
    /\ UNCHANGED lastReply
    /\ progress_backup' = write_backup(progress, progress_backup)
    /\ UNCHANGED <<mtoday, resumeVars, walkerVars, pagerVars, tblVars, slotVars, retryVars>>

\* Lines 164-193: the checkpoint is loaded, the call counter reset, the range limit computed.
Start ==
    /\ pc = "boot"
    /\ progress' = [drive EXCEPT !.daily_api_calls = 0]
    /\ limit' = limit_of(NowYear, NowMonth)
    /\ clientCalls' = 0
    /\ consecutive_zero_inserts' = 0
    /\ pc' = "loop"
    /\ UNCHANGED <<fetchVars, errors, sinkVars, slack, exitCode, run, observers>>
    /\ UNCHANGED <<mtoday, progress_backup, resumeVars, walkerVars, pagerVars, tblVars, slotVars, retryVars>>

validate_params(job, year, month) ==
    /\ job \in JobSet
    /\ ~(year < 2000 \/ year > NowYear + 1)
    /\ ~(month < 1 \/ month > 12)

\* Except clauses that let a rate-limit error leave main() through its handlers.
LoopExcept_propagates(err) ==
    IF err.cls = "RateLimitError"
    THEN /\ errors' = errors \cup {"rate_limit"}
         /\ pc' = "exit"
         /\ stopReason' = "rate_limit"
         /\ periodStatus' = "raised"
    ELSE /\ errors' = errors \cup {"api_error"}
         /\ pc' = "advance"
         /\ stopReason' = stopReason
         /\ periodStatus' = "raised"

\* Except clauses without the break of the rate-limit clause.
LoopExcept_no_break(err) ==
    IF err.cls = "RateLimitError"
    THEN /\ errors' = errors \cup {"rate_limit"}
         /\ pc' = "advance"
         /\ stopReason' = "rate_limit"
         /\ periodStatus' = "raised"
    ELSE /\ errors' = errors \cup {"api_error"}
         /\ pc' = "advance"
         /\ stopReason' = stopReason
         /\ periodStatus' = "raised"

\* The except clauses of the loop body (lines 227-238) for an error raised by fetch_data.
LoopExcept(err) ==
    IF err.cls = "RateLimitError"
    THEN /\ errors' = errors \cup {"rate_limit"}
         /\ pc' = "upload"
         /\ stopReason' = "rate_limit"
         /\ periodStatus' = "raised"
    ELSE /\ errors' = errors \cup {"api_error"}
         /\ pc' = "advance"
         /\ stopReason' = stopReason
         /\ periodStatus' = "raised"

\* Line 196 and lines 190-202 of fetch_data: the quota test of the loop, then the
\* parameter and rate-limit checks that precede the first request of the period.
LoopTop ==
    /\ pc = "loop"
    /\ IF progress.daily_api_calls < MAX_API_CALLS
       THEN IF ~validate_params(progress.current_job, progress.current_year, progress.current_month)
            THEN /\ LoopExcept(Err("ValidationError", "VALIDATION_ERROR", 0))
                 /\ UNCHANGED lastFetched
            ELSE IF clientCalls >= daily_limit
                 THEN /\ LoopExcept(Err("RateLimitError", "RATE_LIMIT_ERROR", 0))
                      /\ UNCHANGED lastFetched
                 ELSE /\ pc' = "fetch"
                      /\ periodStatus' = "fetching"
                      /\ lastFetched' = Cursor(progress)
                      /\ UNCHANGED <<errors, stopReason>>
       ELSE /\ pc' = "upload"
            /\ stopReason' = "quota"
            /\ UNCHANGED <<errors, periodStatus, lastFetched>>
    /\ callsAtTop' = progress.daily_api_calls
    /\ UNCHANGED <<fetchVars, sentPeriod>>
    /\ UNCHANGED <<progress, limit, clientCalls, consecutive_zero_inserts, sinkVars, slack,
                   exitCode, run, sent, spent, passed>>
    /\ lastReply' = NoReply
    /\ UNCHANGED <<mtoday, progress_backup, resumeVars, walkerVars, pagerVars, tblVars, slotVars, retryVars>>

\* One call of session.get in the page loop of fetch_data (lines 206-257) and,
\* when the call ends the fetch, lines 207-210 and 224-238 of main().  The
\* requests the HTTP adapter repeats on its own inside one call (lines 62-80)
\* are not counted: sent is a lower bound of the requests on the wire.
FetchRequest ==
    /\ pc = "fetch"
    /\ spent + sent < MaxSent
    /\ \E resp \in Responses :
          LET st == fetch_data_step(resp, all_items, api_calls_used, attempt, page_no) IN
          /\ lastReply' = resp
          /\ all_items' = st.items
          /\ api_calls_used' = st.used
          /\ clientCalls' = clientCalls + (st.used - api_calls_used)
          /\ attempt' = IF st.kind = "retry" THEN attempt + 1 ELSE 0
          /\ page_no' = IF st.kind = "more" THEN page_no + 1 ELSE page_no
          /\ CASE st.kind \in {"retry", "more"} ->
                    UNCHANGED <<pc, progress, errors, stopReason, periodStatus>>
               [] st.kind = "raise" ->
                    /\ LoopExcept(st.err)
                    /\ UNCHANGED progress
               [] st.kind = "return" ->
                    /\ progress' = [progress EXCEPT !.daily_api_calls = @ + st.used]
                    /\ pc' = IF Len(st.items) > 0 THEN "insert" ELSE "advance"
                    /\ periodStatus' = st.status
                    /\ UNCHANGED <<errors, stopReason>>
    /\ sent' = sent + 1
    /\ sentPeriod' = sentPeriod + 1
    /\ UNCHANGED <<limit, consecutive_zero_inserts, sinkVars, slack, exitCode, run,
                   spent, callsAtTop, lastFetched, passed>>
    /\ UNCHANGED <<mtoday, progress_backup, resumeVars, walkerVars, pagerVars, tblVars, slotVars, retryVars>>

\* Lines 210-223 and 236-238: the rows of the period go to the table; an error of
\* the insert is caught by the loop and recorded.
Insert ==
    /\ pc = "insert"
    /\ LET rows == parse_items_to_rows(all_items)
           inserted == insert_contracts_count(rows, db)
       IN  \/ /\ db' = insert_contracts_table(rows, db)
              /\ progress' = [progress EXCEPT !.total_collected = @ + inserted]
              /\ consecutive_zero_inserts' =
                     IF inserted > 0 THEN 0 ELSE consecutive_zero_inserts + 1
              /\ UNCHANGED <<errors, periodStatus>>
           \/ /\ errors' = errors \cup {"unexpected"}
              /\ periodStatus' = "insert_failed"
              /\ UNCHANGED <<db, progress, consecutive_zero_inserts>>
    /\ pc' = "advance"
    /\ UNCHANGED <<limit, fetchVars, clientCalls, localFile, drive, slack,
                   exitCode, run, sent, spent, sentPeriod, callsAtTop, lastFetched, stopReason,
                   passed>>
    /\ lastReply' = NoReply
    /\ UNCHANGED <<mtoday, progress_backup, resumeVars, walkerVars, pagerVars, tblVars, slotVars, retryVars>>

\* An alarm that lets one more period through.
zero_insert_alarm_late(streak) == streak > ZERO_INSERT_ALARM

\* Line 258: the test of the streak of periods that inserted nothing.
zero_insert_alarm(streak) == streak >= ZERO_INSERT_ALARM

beyond_limit(year, month, lim) ==
    year > lim[1] \/ (year = lim[1] /\ month > lim[2])

\* Lines 240-274: the cursor moves to the next period, progress.json is written
\* (the write is taken to succeed), then the anomaly and end-of-range tests.
Advance ==
    /\ pc = "advance"
    /\ LET next == get_next_period(progress.current_job, progress.current_year,
                                   progress.current_month)
           moved == [progress EXCEPT !.current_job = next[1],
                                     !.current_year = next[2],
                                     !.current_month = next[3]]
       IN  /\ progress' = moved
           /\ localFile' = moved
           /\ passed' = IF passed = NoPeriod \/ Rank(passed) < Rank(Cursor(progress))
                        THEN Cursor(progress) ELSE passed
           /\ IF zero_insert_alarm(consecutive_zero_inserts)
              THEN /\ slack' = slack \cup {"anomaly"}
                   /\ errors' = errors \cup {"anomaly"}
                   /\ stopReason' = "anomaly"
                   /\ pc' = "upload"
              ELSE IF beyond_limit(next[2], next[3], limit)
                   THEN /\ stopReason' = "range"
                        /\ pc' = "upload"
                        /\ UNCHANGED <<slack, errors>>
                   ELSE /\ pc' = "loop"
                        /\ UNCHANGED <<slack, errors, stopReason>>
    /\ all_items' = <<>>
    /\ page_no' = 1
    /\ api_calls_used' = 0
    /\ attempt' = 0
    /\ sentPeriod' = 0
    /\ callsAtTop' = 0
    /\ periodStatus' = "none"
    /\ UNCHANGED <<limit, clientCalls, consecutive_zero_inserts, db, drive, exitCode, run,
                   sent, spent, lastFetched>>
    /\ lastReply' = NoReply
    /\ UNCHANGED <<mtoday, progress_backup, resumeVars, walkerVars, pagerVars, tblVars, slotVars, retryVars>>

\* Lines 276-284: the checkpoint is uploaded to the remote slot; a failure is recorded.
Upload ==
    /\ pc = "upload"
    /\ progress' = [progress EXCEPT !.last_run_date = mtoday]
    /\ \/ /\ drive' = progress'
          /\ UNCHANGED errors
       \/ /\ errors' = errors \cup {"upload_failed"}
          /\ UNCHANGED drive
    /\ pc' = "notify"
    /\ lastReply' = NoReply
    /\ UNCHANGED <<limit, fetchVars, clientCalls, consecutive_zero_inserts, db,
                   localFile, slack, exitCode, run, sent, spent, sentPeriod, callsAtTop,
                   periodStatus, lastFetched, stopReason, passed>>
    /\ UNCHANGED <<mtoday, progress_backup, resumeVars, walkerVars, pagerVars, tblVars, slotVars, retryVars>>

\* Lines 286-302 and 328-336: the summary goes to the notifier, main() returns
\* True and the finally block writes progress_backup.json.
Notify ==
    /\ pc = "notify"
    /\ slack' = slack \cup {"summary"}
    /\ exitCode' = 0
    /\ pc' = "exit"
    /\ UNCHANGED <<progress, limit, fetchVars, clientCalls, consecutive_zero_inserts, errors,
                   db, localFile, drive, run, observers>>
    /\ progress_backup' = write_backup(progress, progress_backup)
    /\ UNCHANGED <<mtoday, resumeVars, walkerVars, pagerVars, tblVars, slotVars, retryVars>>

\* The process is killed (timeout of the job, crash): what it held in memory is gone.
Kill ==
    /\ pc \in {"loop", "fetch", "insert", "advance", "upload", "notify"}
    /\ pc' = "dead"
    /\ progress' = None
    /\ limit' = <<0, 0>>
    /\ all_items' = <<>>
    /\ page_no' = 1
    /\ api_calls_used' = 0
    /\ attempt' = 0
    /\ clientCalls' = 0
    /\ consecutive_zero_inserts' = 0
    /\ errors' = {}
    /\ slack' = {}
    /\ sent' = 0
    /\ spent' = spent + sent
    /\ sentPeriod' = 0
    /\ callsAtTop' = 0
    /\ periodStatus' = "none"
    /\ lastFetched' = NoPeriod
    /\ stopReason' = "killed"
    /\ UNCHANGED <<sinkVars, exitCode, run, passed>>
    /\ lastReply' = NoReply
    /\ UNCHANGED <<mtoday, progress_backup, resumeVars, walkerVars, pagerVars, tblVars, slotVars, retryVars>>

\* collectors/g2b/upload_progress.py: the step after the collector uploads progress.json.
UploadStep ==
    /\ pc \in {"exit", "dead"}
    /\ run < MaxRuns
    /\ IF localFile = None
       THEN UNCHANGED drive
       ELSE \/ drive' = localFile
            \/ UNCHANGED drive
    /\ pc' = "uploaded"
    /\ UNCHANGED <<progress, limit, fetchVars, clientCalls, consecutive_zero_inserts, errors,
                   db, localFile, slack, exitCode, run, observers>>
    /\ UNCHANGED <<mtoday, progress_backup, resumeVars, walkerVars, pagerVars, tblVars, slotVars, retryVars>>

\* The next scheduled run: collectors/g2b/download_progress.py removes the local
\* progress.json and a new process starts main().  main() reads the date only to
\* stamp the checkpoint (line 277), and the runs modelled fall on one date.
Restart ==
    /\ pc \in {"exit", "dead", "uploaded"}
    /\ run < MaxRuns
    /\ run' = run + 1
    /\ pc' = "boot"
    /\ progress' = None
    /\ limit' = <<0, 0>>
    /\ all_items' = <<>>
    /\ page_no' = 1
    /\ api_calls_used' = 0
    /\ attempt' = 0
    /\ clientCalls' = 0
    /\ consecutive_zero_inserts' = 0
    /\ errors' = {}
    /\ localFile' = None
    /\ slack' = {}
    /\ exitCode' = -1
    /\ sent' = 0
    /\ spent' = spent + sent
    /\ sentPeriod' = 0
    /\ callsAtTop' = 0
    /\ periodStatus' = "none"
    /\ lastFetched' = NoPeriod
    /\ stopReason' = "none"
    /\ UNCHANGED <<db, drive, passed>>
    /\ lastReply' = NoReply
    /\ progress_backup' = None
    /\ UNCHANGED <<mtoday, resumeVars, walkerVars, pagerVars, tblVars, slotVars, retryVars>>

Next ==
    \/ StartFails
    \/ Start
    \/ LoopTop
    \/ FetchRequest
    \/ Insert
    \/ Advance
    \/ Upload
    \/ Notify
    \/ Kill
    \/ UploadStep
    \/ Restart

Spec == Init /\ [][Next]_vars

(***************************************************************************)
(* Actions of collect_with_resume().                                       *)
(***************************************************************************)
MainOff ==
    /\ pc = "off"
    /\ progress = None
    /\ limit = <<0, 0>>
    /\ all_items = <<>>
    /\ page_no = 1
    /\ api_calls_used = 0
    /\ attempt = 0
    /\ clientCalls = 0
    /\ consecutive_zero_inserts = 0
    /\ errors = {}
    /\ db = {}
    /\ localFile = None
    /\ drive = None
    /\ slack = {}
    /\ exitCode = -1
    /\ run = 1
    /\ sent = 0
    /\ spent = 0
    /\ sentPeriod = 0
    /\ callsAtTop = 0
    /\ periodStatus = "none"
    /\ lastFetched = NoPeriod
    /\ stopReason = "none"
    /\ passed = NoPeriod
    /\ lastReply = NoReply
    /\ mtoday = 0
    /\ progress_backup = None

InitFiles ==
    {NoFile,
     RCheckpoint(TaskList[1], NowYear - 1, 12, 0, 0, 0),
     RCheckpoint(TaskList[1], NowYear, NowMonth, 0, 1, 0),
     RCheckpoint(TaskList[Len(TaskList)], NowYear, NowMonth, 0, 0, 0)}

InitResume ==
    /\ MainOff
    /\ rpc = "boot"
    /\ rprogress = NoFile
    /\ PROGRESS_FILE \in InitFiles
    /\ name_idx = 1
    /\ ryear = 0
    /\ rmonth = 0
    /\ year_data = <<>>
    /\ month_items = <<>>
    /\ page = 1
    /\ rattempt = 0
    /\ files = {}
    /\ rslack = {}
    /\ thread_ts = "None"
    /\ today = 1
    /\ rrun = 1
    /\ rsent = 0
    /\ rspent = 0
    /\ rfetched = NoPeriod
    /\ rstop = "none"
    /\ rcallsAtStart = 0
    /\ WalkerOff
    /\ PagerOff
    /\ TableOff
    /\ SlotOff
    /\ RetryOff

monthVars == <<month_items, page, rattempt>>
robservers == <<rsent, rspent, rfetched, rstop, rcallsAtStart>>

\* Lines 198-215: the checkpoint is loaded, the start message sent and the
\* category to start at looked up; a category that is not in the list raises
\* out of collect_with_resume() into the handler of lines 289-293.
RStart ==
    /\ rpc = "boot"
    /\ \E outcome \in SendOutcomes :
         LET loaded == load_progress(PROGRESS_FILE, today)
             reply == send_slack_message(outcome)
         IN
         /\ rprogress' = loaded
         /\ rcallsAtStart' = loaded.daily_api_calls
         /\ thread_ts' = reply.ts
         /\ IF ~reply.raised /\ loaded.current_job \in TaskSet
            THEN /\ name_idx' = TaskIndex(loaded.current_job)
                 /\ rslack' = rslack \cup {"start"}
                 /\ rpc' = "category"
                 /\ UNCHANGED rstop
            ELSE /\ rslack' = rslack \cup {"start", "error"}
                 /\ rpc' = "crashed"
                 /\ rstop' = "raised"
                 /\ UNCHANGED name_idx
    /\ UNCHANGED <<PROGRESS_FILE, ryear, rmonth, year_data, monthVars, files, today, rrun,
                   rsent, rspent, rfetched>>
    /\ UNCHANGED <<mainVars, walkerVars, pagerVars, tblVars, slotVars, retryVars>>

\* Lines 217-221 and 272-282: the next category of the list, or the end of the list.
RCategory ==
    /\ rpc = "category"
    /\ IF name_idx > Len(TaskList)
       THEN /\ \E outcome \in SendOutcomes :
                 IF send_slack_message(outcome).raised
                 THEN /\ rslack' = rslack \cup {"complete", "error"}
                      /\ rpc' = "crashed"
                      /\ rstop' = "raised"
                 ELSE /\ rslack' = rslack \cup {"complete"}
                      /\ rpc' = "done"
                      /\ rstop' = "complete"
            /\ UNCHANGED ryear
       ELSE /\ ryear' = IF TaskList[name_idx] = rprogress.current_job
                        THEN rprogress.current_year ELSE StartYear
            /\ rpc' = "year"
            /\ UNCHANGED <<rslack, rstop>>
    /\ UNCHANGED <<rprogress, PROGRESS_FILE, name_idx, rmonth, year_data, monthVars, files,
                   today, rrun, rsent, rspent, rfetched, rcallsAtStart>>
    /\ UNCHANGED <<thread_ts, mainVars, walkerVars, pagerVars, tblVars, slotVars, retryVars>>

\* Lines 221-228: the next year of range(start_year, end_year + 1).
RYear ==
    /\ rpc = "year"
    /\ IF ryear > NowYear
       THEN /\ rpc' = "category_end"
            /\ UNCHANGED <<year_data, rmonth>>
       ELSE /\ year_data' = <<>>
            /\ rmonth' = IF ryear = rprogress.current_year
                            /\ TaskList[name_idx] = rprogress.current_job
                         THEN rprogress.current_month ELSE 1
            /\ rpc' = "month"
    /\ UNCHANGED <<rprogress, PROGRESS_FILE, name_idx, ryear, monthVars, files, rslack,
                   today, rrun, robservers>>
    /\ UNCHANGED <<thread_ts, mainVars, walkerVars, pagerVars, tblVars, slotVars, retryVars>>

\* Lines 228-233 and 125-126: the next month of range(start_month, 13), the
\* test for the months after the current one, and the entry of get_month_data.
RMonth ==
    /\ rpc = "month"
    /\ IF rmonth >= 13 \/ (ryear = NowYear /\ rmonth > NowMonth)
       THEN /\ rpc' = "year_end"
            /\ UNCHANGED <<monthVars, rfetched>>
       ELSE /\ month_items' = <<>>
            /\ page' = 1
            /\ rattempt' = 0
            /\ rfetched' = <<TaskList[name_idx], ryear, rmonth>>
            /\ rpc' = "page"
    /\ UNCHANGED <<rprogress, PROGRESS_FILE, name_idx, ryear, rmonth, year_data, files, rslack,
                   today, rrun, rsent, rspent, rstop, rcallsAtStart>>
    /\ UNCHANGED <<thread_ts, mainVars, walkerVars, pagerVars, tblVars, slotVars, retryVars>>

\* Lines 129-130 and 236-250: the quota test at the top of the page loop; when
\* the quota is used up the pages of the year go to the file, the checkpoint is
\* saved, the quota message sent and the run returns.
RQuotaStop ==
    /\ rpc = "page"
    /\ rattempt = 0
    /\ quota_reached(rprogress.daily_api_calls)
    /\ files' = save_year_file(files, TaskList[name_idx], ryear, year_data)
    /\ PROGRESS_FILE' = rprogress
    /\ \E outcome \in SendOutcomes :
         IF send_slack_message(outcome).raised
         THEN /\ rslack' = rslack \cup {"quota", "error"}
              /\ rpc' = "crashed"
              /\ rstop' = "raised"
         ELSE /\ rslack' = rslack \cup {"quota"}
              /\ rpc' = "done"
              /\ rstop' = "quota"
    /\ UNCHANGED <<rprogress, name_idx, ryear, rmonth, year_data, monthVars, today, rrun,
                   rsent, rspent, rfetched, rcallsAtStart>>
    /\ UNCHANGED <<thread_ts, mainVars, walkerVars, pagerVars, tblVars, slotVars, retryVars>>

\* Lines 252-259: what the month loop does with the pages get_month_data returned.
month_done(prog, data) ==
    [prog EXCEPT !.total_collected = @ + Len(data), !.current_month = rmonth + 1]

\* Lines 132-165: one requests.get of get_month_data and what follows it up
\* to the next request.
RRequest ==
    /\ rpc = "page"
    /\ ~(rattempt = 0 /\ quota_reached(rprogress.daily_api_calls))
    /\ rspent + rsent < MaxSentR
    /\ \E outcome \in Outcomes :
          LET counted == IF outcome = "exception" THEN 0 ELSE 1
              called == [rprogress EXCEPT !.daily_api_calls = @ + counted]
              returns == \/ outcome = "empty"
                         \/ outcome \in {"exception", "error"} /\ ~(rattempt < month_max_retries - 1)
          IN  IF outcome = "items"
              THEN /\ month_items' = Append(month_items,
                                            PageTag(TaskList[name_idx], ryear, rmonth, page))
                   /\ page' = page + 1
                   /\ rattempt' = 0
                   /\ rprogress' = called
                   /\ UNCHANGED <<rpc, rmonth, year_data, PROGRESS_FILE>>
              ELSE IF returns
                   THEN /\ year_data' = year_data \o month_items
                        /\ rprogress' = month_done(called, month_items)
                        /\ PROGRESS_FILE' = month_done(called, month_items)
                        /\ rmonth' = rmonth + 1
                        /\ month_items' = <<>>
                        /\ page' = 1
                        /\ rattempt' = 0
                        /\ rpc' = "month"
                   ELSE /\ rattempt' = rattempt + 1
                        /\ rprogress' = called
                        /\ UNCHANGED <<rpc, rmonth, year_data, PROGRESS_FILE, month_items, page>>
    /\ rsent' = rsent + 1
    /\ UNCHANGED <<name_idx, ryear, files, rslack, today, rrun, rspent, rfetched, rstop,
                   rcallsAtStart>>
    /\ UNCHANGED <<thread_ts, mainVars, walkerVars, pagerVars, tblVars, slotVars, retryVars>>

\* Lines 261-264: the pages of the year go to the file of the year and the
\* checkpoint moves to the next year.
RYearEnd ==
    /\ rpc = "year_end"
    /\ files' = save_year_file(files, TaskList[name_idx], ryear, year_data)
    /\ rprogress' = [rprogress EXCEPT !.current_year = ryear + 1, !.current_month = 1]
    /\ PROGRESS_FILE' = rprogress'
    /\ ryear' = ryear + 1
    /\ rpc' = "year"
    /\ UNCHANGED <<name_idx, rmonth, year_data, monthVars, rslack, today, rrun, robservers>>
    /\ UNCHANGED <<thread_ts, mainVars, walkerVars, pagerVars, tblVars, slotVars, retryVars>>

\* Lines 266-270: the checkpoint moves to the next category, or to the end marker.
RCategoryEnd ==
    /\ rpc = "category_end"
    /\ rprogress' = [rprogress EXCEPT
                        !.current_job = IF name_idx # Len(TaskList)
                                        THEN TaskList[name_idx + 1] ELSE "Done",
                        !.current_year = StartYear,
                        !.current_month = 1]
    /\ PROGRESS_FILE' = rprogress'
    /\ name_idx' = name_idx + 1
    /\ rpc' = "category"
    /\ UNCHANGED <<ryear, rmonth, year_data, monthVars, files, rslack, today, rrun, robservers>>
    /\ UNCHANGED <<thread_ts, mainVars, walkerVars, pagerVars, tblVars, slotVars, retryVars>>

\* The process is killed: what it held in memory is gone, the files stay.
RKill ==
    /\ rpc \in {"category", "year", "month", "page", "year_end", "category_end"}
    /\ rpc' = "dead"
    /\ rprogress' = NoFile
    /\ name_idx' = 1
    /\ ryear' = 0
    /\ rmonth' = 0
    /\ year_data' = <<>>
    /\ month_items' = <<>>
    /\ page' = 1
    /\ rattempt' = 0
    /\ rslack' = {}
    /\ rstop' = "killed"
    /\ rfetched' = NoPeriod
    /\ rcallsAtStart' = 0
    /\ UNCHANGED <<PROGRESS_FILE, files, today, rrun, rsent, rspent>>
    /\ thread_ts' = "None"
    /\ UNCHANGED <<mainVars, walkerVars, pagerVars, tblVars, slotVars, retryVars>>

\* The next run, on the same day or on the next one.
RRestart ==
    /\ rpc \in {"done", "crashed", "dead"}
    /\ rrun < MaxRunsR
    /\ rrun' = rrun + 1
    /\ \E d \in {today, today + 1} :
          /\ d <= MaxDay
          /\ today' = d
    /\ rpc' = "boot"
    /\ rprogress' = NoFile
    /\ name_idx' = 1
    /\ ryear' = 0
    /\ rmonth' = 0
    /\ year_data' = <<>>
    /\ month_items' = <<>>
    /\ page' = 1
    /\ rattempt' = 0
    /\ rslack' = {}
    /\ rstop' = "none"
    /\ rfetched' = NoPeriod
    /\ rcallsAtStart' = 0
    /\ rsent' = 0
    /\ rspent' = rspent + rsent
    /\ UNCHANGED <<PROGRESS_FILE, files>>
    /\ thread_ts' = "None"
    /\ UNCHANGED <<mainVars, walkerVars, pagerVars, tblVars, slotVars, retryVars>>

NextResume ==
    \/ RStart
    \/ RCategory
    \/ RYear
    \/ RMonth
    \/ RQuotaStop
    \/ RRequest
    \/ RYearEnd
    \/ RCategoryEnd
    \/ RKill
    \/ RRestart

SpecResume == InitResume /\ [][NextResume]_vars

(***************************************************************************)
(* The period walker on its own: next is applied to any period of the     *)
(* range and to what it returns.                                           *)
(***************************************************************************)
InitWalker ==
    /\ MainOff
    /\ rpc = "off"
    /\ rprogress = NoFile
    /\ PROGRESS_FILE = NoFile
    /\ name_idx = 1
    /\ ryear = 0
    /\ rmonth = 0
    /\ year_data = <<>>
    /\ month_items = <<>>
    /\ page = 1
    /\ rattempt = 0
    /\ files = {}
    /\ rslack = {}
    /\ thread_ts = "None"
    /\ today = 1
    /\ rrun = 1
    /\ rsent = 0
    /\ rspent = 0
    /\ rfetched = NoPeriod
    /\ rstop = "none"
    /\ rcallsAtStart = 0
    /\ wfrom = NoPeriod
    /\ wto \in JobSet \X Years \X (1..12)
    /\ PagerOff
    /\ TableOff
    /\ SlotOff
    /\ RetryOff

Walk ==
    /\ wto # NoPeriod
    /\ wto[2] <= NowYear
    /\ wfrom' = wto
    /\ wto' = get_next_period(wto[1], wto[2], wto[3])
    /\ UNCHANGED <<mainVars, resumeVars, pagerVars, tblVars, slotVars, retryVars>>

NextWalker == Walk

SpecWalker == InitWalker /\ [][NextWalker]_vars

(***************************************************************************)
(* The page loop of fetch_data (and of fetch_paginated_data, which has the *)
(* same shape) on its own, against a provider that holds pgTotal items for *)
(* the period and serves them in pages of numOfRows = pgSize.              *)
(***************************************************************************)
MaxTotal == 8
MaxPageSize == 4
fetch_max_pages == 3

\* The number of <item> elements the provider puts on page p.
page_items(total, size, p) ==
    IF total - (p - 1) * size <= 0 THEN 0
    ELSE IF total - (p - 1) * size >= size THEN size
    ELSE total - (p - 1) * size

InitPager ==
    /\ MainOff
    /\ ResumeOff
    /\ pgState = "paging"
    /\ pgTotal \in 0..MaxTotal
    /\ pgSize \in 1..MaxPageSize
    /\ pgPage = 1
    /\ pgItems = 0
    /\ pgCalls = 0
    /\ pgLast = 0
    /\ TableOff
    /\ SlotOff
    /\ RetryOff

\* Lines 226-228: the loop is left on a page without items, and only then.
stop_paging(n, size) == n = 0

\* One pass of the while loop, lines 206-233: request, count the call, leave
\* on an empty page, otherwise extend all_items and go to the next page.
PageRequest ==
    /\ pgState = "paging"
    /\ pgPage <= fetch_max_pages
    /\ LET n == page_items(pgTotal, pgSize, pgPage) IN
        /\ pgCalls' = pgCalls + 1
        /\ pgLast' = n
        /\ IF stop_paging(n, pgSize)
           THEN /\ pgState' = "returned"
                /\ UNCHANGED <<pgItems, pgPage>>
           ELSE /\ pgItems' = pgItems + n
                /\ pgPage' = pgPage + 1
                /\ pgState' = "paging"
    /\ UNCHANGED <<pgTotal, pgSize, mainVars, resumeVars, walkerVars, tblVars, slotVars, retryVars>>

\* Line 206: the loop is left when max_pages pages have been read.
PageLimit ==
    /\ pgState = "paging"
    /\ pgPage > fetch_max_pages
    /\ pgState' = "returned"
    /\ UNCHANGED <<pgTotal, pgSize, pgPage, pgItems, pgCalls, pgLast, mainVars, resumeVars, walkerVars, tblVars, slotVars, retryVars>>

NextPager == PageRequest \/ PageLimit

SpecPager == InitPager /\ [][NextPager]_vars

(***************************************************************************)
(* insert_contracts of utils/db.py on its own: a table with some keys, a   *)
(* list of rows, and the same list inserted once and once more.           *)
(***************************************************************************)
MaxTableKey == 2
MaxRows == 3

TableKeys == 1..MaxTableKey

RowLists == UNION {[1..n -> TableKeys] : n \in 0..MaxRows}

InitTable ==
    /\ MainOff
    /\ ResumeOff
    /\ PagerOff
    /\ tblState = "ready"
    /\ tblRows \in RowLists
    /\ tblTable \in SUBSET TableKeys
    /\ tblBefore = tblTable
    /\ tblReturned = 0
    /\ SlotOff
    /\ RetryOff

\* Lines 109-129: one call of insert_contracts(rows).
InsertCall ==
    /\ tblState \in {"ready", "once"}
    /\ tblState' = IF tblState = "ready" THEN "once" ELSE "twice"
    /\ tblBefore' = tblTable
    /\ tblTable' = insert_contracts_table(tblRows, tblTable)
    /\ tblReturned' = insert_contracts_count(tblRows, tblTable)
    /\ UNCHANGED <<tblRows, mainVars, resumeVars, walkerVars, pagerVars, slotVars, retryVars>>

NextTable == InsertCall

SpecTable == InitTable /\ [][NextTable]_vars

(***************************************************************************)
(* The checkpoint slots on their own: upload_progress() of                 *)
(* api-collector/collectors/g2b/upload_progress.py, which puts the local   *)
(* progress.json into the Drive folder, and save_progress of utils/db.py,  *)
(* which writes row id = 1 of table progress.                              *)
(***************************************************************************)
MaxCheckpoint == 2
MaxRemoteFiles == 2
MaxSaves == 2

CheckpointIds == 1..MaxCheckpoint

RemoteFolders == UNION {[1..n -> CheckpointIds] : n \in 0..MaxRemoteFiles}

InitSlot ==
    /\ MainOff
    /\ ResumeOff
    /\ PagerOff
    /\ TableOff
    /\ upPc = "check"
    /\ upLocal \in 0..MaxCheckpoint
    /\ upRemote \in RemoteFolders
    /\ upPrev = upRemote
    /\ upTodo = 0
    /\ dbRow \in 0..MaxCheckpoint
    /\ dbPrev = dbRow
    /\ dbNew = 0
    /\ dbSaves = 0
    /\ RetryOff

\* Lines 17-27: returns when the folder id, the key file or the local file
\* is missing.
UpCheck ==
    /\ upPc = "check"
    /\ \E env \in {"no_folder", "no_account", "ok"} :
          upPc' = IF env = "ok" /\ upLocal # 0 THEN "auth" ELSE "done"
    /\ UNCHANGED <<upLocal, upRemote, upPrev, upTodo, dbRow, dbPrev, dbNew, dbSaves,
                   mainVars, resumeVars, walkerVars, pagerVars, tblVars, retryVars>>

\* Lines 32-40: credentials and client; an exception returns.
UpAuth ==
    /\ upPc = "auth"
    /\ \E ok \in BOOLEAN : upPc' = IF ok THEN "list" ELSE "done"
    /\ UNCHANGED <<upLocal, upRemote, upPrev, upTodo, dbRow, dbPrev, dbNew, dbSaves,
                   mainVars, resumeVars, walkerVars, pagerVars, tblVars, retryVars>>

\* Lines 45-48: lists the files named progress.json; an exception returns
\* (lines 53-55).
UpList ==
    /\ upPc = "list"
    /\ \E ok \in BOOLEAN :
          IF ok
          THEN upPc' = "delete" /\ upTodo' = Len(upRemote)
          ELSE upPc' = "done" /\ upTodo' = upTodo
    /\ UNCHANGED <<upLocal, upRemote, upPrev, dbRow, dbPrev, dbNew, dbSaves,
                   mainVars, resumeVars, walkerVars, pagerVars, tblVars, retryVars>>

\* Lines 50-51: deletes one listed file; an exception returns (lines 53-55).
UpDelete ==
    /\ upPc = "delete"
    /\ upTodo > 0
    /\ \E ok \in BOOLEAN :
          IF ok
          THEN upPc' = "delete" /\ upRemote' = Tail(upRemote) /\ upTodo' = upTodo - 1
          ELSE upPc' = "done" /\ UNCHANGED <<upRemote, upTodo>>
    /\ UNCHANGED <<upLocal, upPrev, dbRow, dbPrev, dbNew, dbSaves,
                   mainVars, resumeVars, walkerVars, pagerVars, tblVars, retryVars>>

\* Lines 60-77: creates progress.json from the local file; an exception is
\* printed.
UpCreate ==
    /\ upPc = "delete"
    /\ upTodo = 0
    /\ \E ok \in BOOLEAN :
          upRemote' = IF ok THEN Append(upRemote, upLocal) ELSE upRemote
    /\ upPc' = "done"
    /\ UNCHANGED <<upLocal, upPrev, upTodo, dbRow, dbPrev, dbNew, dbSaves,
                   mainVars, resumeVars, walkerVars, pagerVars, tblVars, retryVars>>

\* The process dies between two requests.
UpKill ==
    /\ upPc \in {"check", "auth", "list", "delete"}
    /\ upPc' = "dead"
    /\ UNCHANGED <<upLocal, upRemote, upPrev, upTodo, dbRow, dbPrev, dbNew, dbSaves,
                   mainVars, resumeVars, walkerVars, pagerVars, tblVars, retryVars>>

\* save_progress, lines 88-106: one INSERT ... ON CONFLICT (id) DO UPDATE
\* of all six fields inside "with get_connection() as conn", which commits
\* when the block ends and rolls back when it raises.
SaveProgress ==
    /\ upPc # "off"
    /\ dbSaves < MaxSaves
    /\ \E p \in CheckpointIds, outcome \in {"commit", "error"} :
          /\ dbNew' = p
          /\ dbRow' = IF outcome = "commit" THEN p ELSE dbRow
    /\ dbPrev' = dbRow
    /\ dbSaves' = dbSaves + 1
    /\ UNCHANGED <<upPc, upLocal, upRemote, upPrev, upTodo,
                   mainVars, resumeVars, walkerVars, pagerVars, tblVars, retryVars>>

NextSlot == UpCheck \/ UpAuth \/ UpList \/ UpDelete \/ UpCreate \/ UpKill \/ SaveProgress

SpecSlot == InitSlot /\ [][NextSlot]_vars

(***************************************************************************)
(* retry_on_error and safe_api_call of utils/api_error_handler.py on their *)
(* own: a wrapped function that fails or succeeds anew at each invocation. *)
(***************************************************************************)
MaxRetries == 2

\* What one invocation of the wrapped function can raise.
FuncErrors ==
    {Err("NetworkError", "NETWORK_ERROR", 0), Err("TimeoutError", "TIMEOUT_ERROR", 0),
     Err("RateLimitError", "RATE_LIMIT_ERROR", 0), Err("AuthenticationError", "AUTH_ERROR", 0),
     Err("ValidationError", "VALIDATION_ERROR", 0), Err("ParseError", "PARSE_ERROR", 0),
     Err("APIResponseError", "API_ERROR", 0), Err("APIException", "UNKNOWN_ERROR", 0),
     Err("requests.ConnectionError", "NOT_API", 0), Err("ValueError", "NOT_API", 0)}
    \cup {Err("HTTPError", "HTTP_ERROR", st) : st \in {404, 408, 429, 500, 503}}

\* A wrapper whose loop goes on after the last retry.
retry_on_error_step_unbounded(out, att, maxr) ==
    IF out = NoError
    THEN [kind |-> "return", attempt |-> att]
    ELSE IF ~should_retry(out, 0, maxr + 1)
         THEN [kind |-> "raise", attempt |-> att]
         ELSE [kind |-> "again", attempt |-> att + 1]

\* Lines 278-307: what wrapper() does with the outcome of one invocation.
retry_on_error_step(out, att, maxr) ==
    IF out = NoError
    THEN [kind |-> "return", attempt |-> att]
    ELSE IF ~should_retry(out, att, maxr)
         THEN [kind |-> "raise", attempt |-> att]
         ELSE IF att + 1 <= maxr
              THEN [kind |-> "again", attempt |-> att + 1]
              ELSE [kind |-> "raise", attempt |-> att + 1]

\* A safe_api_call that catches nothing.
safe_api_call_lets_out(step, out) ==
    IF step.kind = "return"
    THEN [state |-> "returned", result |-> "value"]
    ELSE [state |-> "raised", result |-> out.cls]

\* Lines 370-376: the result of wrapped(), or default_value when it raised.
safe_api_call(step, out) ==
    IF step.kind = "return"
    THEN [state |-> "returned", result |-> "value"]
    ELSE [state |-> "returned", result |-> "default"]

InitRetry ==
    /\ MainOff
    /\ ResumeOff
    /\ PagerOff
    /\ TableOff
    /\ SlotOff
    /\ rtState = "running"
    /\ rtMax \in 0..MaxRetries
    /\ rtAttempt = 0
    /\ rtHistory = <<>>
    /\ rtSafe \in BOOLEAN
    /\ rtResult = "none"

\* One pass of the while loop of wrapper() (lines 278-300) and, when the
\* pass ends the call, what the caller gets.
RetryInvoke ==
    /\ rtState = "running"
    /\ Len(rtHistory) <= rtMax + 1
    /\ \E out \in FuncErrors \cup {NoError} :
          LET step == retry_on_error_step(out, rtAttempt, rtMax)
              end == IF rtSafe
                     THEN safe_api_call(step, out)
                     ELSE IF step.kind = "return"
                          THEN [state |-> "returned", result |-> "value"]
                          ELSE [state |-> "raised", result |-> out.cls]
          IN  /\ rtHistory' = Append(rtHistory, out)
              /\ rtAttempt' = step.attempt
              /\ rtState' = IF step.kind = "again" THEN "running" ELSE end.state
              /\ rtResult' = IF step.kind = "again" THEN rtResult ELSE end.result
    /\ UNCHANGED <<rtMax, rtSafe, mainVars, resumeVars, walkerVars, pagerVars, tblVars, slotVars>>

NextRetry == RetryInvoke

SpecRetry == InitRetry /\ [][NextRetry]_vars

\* The wrapped function returns or raises each time it is invoked, and the
\* sleep between two invocations ends.
SpecRetryFair == SpecRetry /\ WF_vars(NextRetry)

(***************************************************************************)
(* The while loop of main() (lines 196-274) pass by pass, from any         *)
(* checkpoint with a listed category and a month of the calendar: what     *)
(* fetch_data and insert_contracts do in a pass is drawn, not computed.    *)
(* The remote slot and the messages play no part in the loop.              *)
(***************************************************************************)
LoopYears == FirstYear..NowYear

LoopLimits == {limit_of(NowYear, NowMonth), limit_of(NowYear, 1)}

\* How the try block of a pass can end: the three except clauses, a fetch
\* without items, a fetch with items.  A fetch is charged no call or one per
\* page up to max_pages; the passes draw the two ends of that range.
PassOutcomes == {"rate_limit", "api_error", "unexpected", "empty", "rows"}

InitLoop ==
    /\ pc = "loop"
    /\ progress \in {Checkpoint(j, y, m, 0, 0) : j \in JobSet, y \in LoopYears, m \in 1..12}
    /\ limit \in LoopLimits
    /\ all_items = <<>>
    /\ page_no = 1
    /\ api_calls_used = 0
    /\ attempt = 0
    /\ clientCalls = 0
    /\ consecutive_zero_inserts = 0
    /\ errors = {}
    /\ db = {}
    /\ localFile = None
    /\ drive = None
    /\ slack = {}
    /\ exitCode = -1
    /\ run = 1
    /\ sent = 0
    /\ spent = 0
    /\ sentPeriod = 0
    /\ callsAtTop = 0
    /\ periodStatus = "none"
    /\ lastFetched = NoPeriod
    /\ stopReason = "none"
    /\ passed = NoPeriod
    /\ lastReply = NoReply
    /\ mtoday = 1
    /\ progress_backup = None
    /\ ResumeOff
    /\ PagerOff
    /\ TableOff
    /\ SlotOff
    /\ RetryOff

\* Lines 196-274: one pass of the loop, or the end of the loop at its
\* condition.
LoopPass ==
    /\ pc = "loop"
    /\ IF progress.daily_api_calls < MAX_API_CALLS
       THEN \E out \in PassOutcomes, used \in {0, max_pages}, rows \in SUBSET Keys :
              LET inserted == IF out = "rows" THEN Cardinality(rows \ db) ELSE 0
                  streak == IF out # "rows"
                            THEN consecutive_zero_inserts
                            ELSE IF inserted > 0 THEN 0 ELSE consecutive_zero_inserts + 1
                  next == get_next_period(progress.current_job, progress.current_year,
                                          progress.current_month)
                  counted == IF out \in {"rate_limit", "api_error"} THEN 0 ELSE used
                  moved == [progress EXCEPT !.current_job = next[1],
                                            !.current_year = next[2],
                                            !.current_month = next[3],
                                            !.daily_api_calls = @ + counted,
                                            !.total_collected = @ + inserted]
              IN  /\ lastFetched' = Cursor(progress)
                  /\ IF out = "rate_limit"
                     THEN /\ errors' = errors \cup {"rate_limit"}
                          /\ stopReason' = "rate_limit"
                          /\ pc' = "upload"
                          /\ UNCHANGED <<progress, localFile, db, consecutive_zero_inserts,
                                         slack, passed>>
                     ELSE /\ progress' = moved
                          /\ localFile' = moved
                          /\ passed' = Cursor(progress)
                          /\ db' = IF out = "rows" THEN db \cup rows ELSE db
                          /\ consecutive_zero_inserts' = streak
                          /\ IF zero_insert_alarm(streak)
                             THEN /\ slack' = slack \cup {"anomaly"}
                                  /\ errors' = errors \cup {"anomaly"}
                                  /\ stopReason' = "anomaly"
                                  /\ pc' = "upload"
                             ELSE /\ slack' = slack
                                  /\ errors' = IF out \in {"api_error", "unexpected"}
                                               THEN errors \cup {out} ELSE errors
                                  /\ IF beyond_limit(next[2], next[3], limit)
                                     THEN stopReason' = "range" /\ pc' = "upload"
                                     ELSE stopReason' = stopReason /\ pc' = "loop"
       ELSE /\ pc' = "upload"
            /\ stopReason' = "quota"
            /\ UNCHANGED <<progress, localFile, db, consecutive_zero_inserts, slack, errors,
                           lastFetched, passed>>
    /\ UNCHANGED <<limit, fetchVars, clientCalls, drive, exitCode, run, sent, spent, sentPeriod,
                   callsAtTop, periodStatus, lastReply>>
    /\ UNCHANGED <<mtoday, progress_backup, resumeVars, walkerVars, pagerVars, tblVars, slotVars,
                   retryVars>>

NextLoop == LoopPass

\* Every call a pass makes returns or raises (requests time out after 30 s,
\* pages and retries are bounded), so a pass that can be made is made.
SpecLoop == InitLoop /\ [][NextLoop]_vars /\ WF_vars(NextLoop)

\* The three programs side by side.
InitAll == Init \/ InitResume \/ InitWalker

NextAll == Next \/ NextResume \/ NextWalker

SpecAll == InitAll /\ [][NextAll]_vars

(***************************************************************************)
(* Properties.                                                             *)
(***************************************************************************)
RCursor(p) == <<p.current_job, p.current_year, p.current_month>>

\* Order of collect_with_resume(): category, then year, then month.
CategoryBefore(p, q) ==
    \/ TaskIndex(p[1]) < TaskIndex(q[1])
    \/ p[1] = q[1] /\ p[2] < q[2]
    \/ p[1] = q[1] /\ p[2] = q[2] /\ p[3] < q[3]

InFiles(tag) == \E f \in files : f.name = tag[1] /\ f.year = tag[2] /\
                                 \E i \in 1..Len(f.data) : f.data[i] = tag

\* C1: every period before the persisted cursor has its fetched records in
\* the durable sink; the cursor is never persisted past a period whose records
\* exist only in memory.  Stated for collect_with_resume(): a page of the year
\* held in memory belongs to a period before the cursor in progress.json only
\* if the page is in the file of the year.
C1_PersistedCursorCoversSink ==
    PROGRESS_FILE.current_job \in TaskSet =>
        \A i \in 1..Len(year_data) :
            CategoryBefore(<<year_data[i][1], year_data[i][2], year_data[i][3]>>,
                           RCursor(PROGRESS_FILE))
                => InFiles(year_data[i])

\* C2: the cursor of main() moves past a period only after the fetch and the
\* insert of the period fully succeeded or the period was confirmed empty.
C2_AdvanceOnlyAfterSuccess ==
    [][(pc = "advance" /\ pc' \in {"loop", "upload"} /\ Cursor(progress') # Cursor(progress))
         => periodStatus \in {"complete", "empty"}]_vars

\* C3: when the calls used have reached the daily quota at the top of an
\* iteration, no further request is issued, the cursor is not advanced, the
\* checkpoint that is saved points at the period the loop stands at, and the
\* notifier gets the quota message.
C3_QuotaStop ==
    [][(rpc = "page" /\ rattempt = 0 /\ rprogress.daily_api_calls >= MAX_DAILY_CALLS)
         => /\ rsent' = rsent
            /\ rpc' \in {"page", "done", "dead"}
            /\ rpc' = "done"
                 => /\ rstop' = "quota"
                    /\ "quota" \in rslack'
                    /\ RCursor(rprogress') = RCursor(rprogress)
                    /\ PROGRESS_FILE' = rprogress
                    /\ RCursor(PROGRESS_FILE') = <<TaskList[name_idx], ryear, rmonth>>]_vars

C3_Witness ==
    /\ rpc = "done"
    /\ rstop = "quota"
    /\ page = 1
    /\ month_items = <<>>
    /\ rsent >= MAX_DAILY_CALLS
    /\ RCursor(PROGRESS_FILE) = rfetched

\* C4: the requests a run issues never exceed the daily quota minus the calls
\* used as read at the start of the run (after the reset check), whatever the
\* pages and retries.  Stated for collect_with_resume().
C4_QuotaCeiling ==
    rpc \notin {"off", "boot", "dead"} => rsent <= MAX_DAILY_CALLS - rcallsAtStart

\* C5: after a period is processed, the increase of daily_api_calls equals the
\* number of requests sent for the period.
C5_OneUnitPerRequest ==
    pc = "advance" => progress.daily_api_calls - callsAtTop = sentPeriod

\* C6: next(category, year, month) returns (category, year, month + 1) when
\* month < 12; at month 12 the next category of the enumeration with the same
\* year and month 1; and from the last category the first category, year + 1, 1.
C6_WalkerCases ==
    wfrom # NoPeriod =>
        LET c == wfrom[1]
            y == wfrom[2]
            m == wfrom[3]
            k == CHOOSE i \in 1..4 : <<"Thng", "Cnstwk", "Servc", "Frgcpt">>[i] = c
        IN  /\ m < 12 => wto = <<c, y, m + 1>>
            /\ (m = 12 /\ k < 4) => wto = <<(<<"Thng", "Cnstwk", "Servc", "Frgcpt">>)[k + 1], y, 1>>
            /\ (m = 12 /\ k = 4) => wto = <<"Thng", y + 1, 1>>

C6_Witness ==
    /\ wfrom = <<"Frgcpt", FirstYear, 12>>
    /\ wto[2] = FirstYear + 1

\* C7: within and across runs main() never fetches a period its cursor has
\* already advanced past.
C7_NeverRefetchPassed ==
    pc = "fetch" => (passed = NoPeriod \/ Rank(Cursor(progress)) > Rank(passed))

\* C8 as stated: the category is the outermost loop, every period of one
\* category is visited before any period of the next category.
C8_CategoryOutermost ==
    [][(lastFetched # NoPeriod /\ lastFetched' # NoPeriod)
         => index(lastFetched'[1]) >= index(lastFetched[1])]_vars

\* C8 amended: get_next_period and main() visit the periods with the year
\* outermost (year, then category, then month), each visit the successor of
\* the one before; collect_with_resume() visits them with the category
\* outermost (category, then year, then month).
C8_VisitingOrder ==
    /\ [](wfrom # NoPeriod => Rank(wto) = Rank(wfrom) + 1)
    /\ [][(lastFetched # NoPeriod /\ lastFetched' # NoPeriod /\ lastFetched' # lastFetched)
            => Rank(lastFetched') = Rank(lastFetched) + 1]_vars
    /\ [][(rfetched # NoPeriod /\ rfetched' # NoPeriod /\ rfetched' # rfetched)
            => CategoryBefore(rfetched, rfetched')]_vars

C8_Witness ==
    /\ pc = "fetch"
    /\ lastFetched = <<jobs[1], NowYear, 1>>
    /\ passed = <<jobs[Len(jobs)], FirstYear, 12>>

FatalReply(resp) == resp.status \in {401, 403} \/ resp.code \in {"30", "99"}

\* C9: when a request meets a fatal condition (authentication failure,
\* provider quota exceeded, malformed parameters) the run stops: the loop is
\* left and the cursor stays at the failing period.
C9_FatalStopsRun ==
    [][(sent' = sent + 1 /\ FatalReply(lastReply'))
         => (pc' = "upload" /\ Cursor(progress') = Cursor(progress))]_vars

C11_NetworkErrorKeepsCursor ==
    [][(pc = "advance" /\ lastReply.exc # "" /\ pc' \in {"loop", "upload"})
         => Cursor(progress') = Cursor(progress)]_vars

\* C12: when the provider answers a period with the "no data" result code
\* (03), the period is a normal empty result: nothing is inserted, the loop
\* goes on to advance the cursor and no entry is added to the error list.
C12_NoDataIsNotAnError ==
    [][(sent' = sent + 1 /\ lastReply'.code = "03" /\ all_items = <<>>)
         => /\ errors' = errors
            /\ db' = db
            /\ pc' = "advance"]_vars

\* C13: the page loop ends with the first page that holds fewer items than
\* the page size (an empty page included), so the requests of a period, and
\* the calls it is charged, number the full pages before that page plus one:
\* 2 for 150 items in pages of 100.
C13_StopsAfterShortPage ==
    pgState = "returned" /\ pgPage <= fetch_max_pages
        => pgCalls = (pgTotal \div pgSize) + 1

\* C14: a run that starts with a checkpoint whose last run date is not
\* today's date has its call counter at 0 when the start step ends, which is
\* before the first quota test of the run; main() resets the counter at every
\* start, so at this one too.
C14_RolloverResets ==
    /\ [][(rpc = "boot" /\ rpc' # "boot" /\ PROGRESS_FILE # NoFile
              /\ PROGRESS_FILE.last_run_date # today)
            => /\ rprogress'.daily_api_calls = 0
               /\ rprogress'.last_run_date = today
               /\ rsent' = 0]_vars
    /\ [][(pc = "boot" /\ pc' = "loop") => (progress'.daily_api_calls = 0 /\ sent' = 0)]_vars

\* A run has just started on the day after the one whose calls the file counts.
C14_Witness ==
    /\ rpc = "category"
    /\ PROGRESS_FILE.daily_api_calls > 0
    /\ PROGRESS_FILE.last_run_date # today
    /\ rprogress.daily_api_calls = 0
    /\ rprogress.last_run_date = today

\* C15: the call counter is reset only when the date has changed: a run of
\* main() that starts on the date the checkpoint was stamped with takes over
\* the counter the checkpoint holds.
C15_SameDateKeepsCounter ==
    [][(pc = "boot" /\ pc' = "loop" /\ drive.last_run_date = mtoday)
         => progress'.daily_api_calls = drive.daily_api_calls]_vars

\* C16: a run restarted from the persisted checkpoint (period P, counter c,
\* total T) that completes period P ends where the run that wrote the
\* checkpoint would have ended had it gone on: still at P until the cursor
\* moves, with the counter at c plus the calls of the period and the total at
\* T plus at most the items of the period.
C16_ResumeIsIdempotent ==
    (/\ pc = "advance"
     /\ periodStatus \in {"complete", "empty"}
     /\ Cursor(progress) = Cursor(drive)
     /\ drive.last_run_date = mtoday)
        => /\ progress.daily_api_calls = drive.daily_api_calls + api_calls_used
           /\ progress.total_collected \in
                  drive.total_collected .. (drive.total_collected + Len(all_items))

\* C17: the checkpoint store holds the cursor of the run when the fetch of a
\* period begins, and while the run lives the stored cursor is the cursor in
\* memory or the period before it.
C17_StoreAtMostOnePeriodBehind ==
    /\ pc = "fetch" => Cursor(drive) = Cursor(progress)
    /\ pc \in {"loop", "fetch", "insert", "advance", "upload"}
          => \/ Cursor(drive) = Cursor(progress)
             \/ get_next_period(drive.current_job, drive.current_year, drive.current_month)
                    = Cursor(progress)

\* C18: no fetch is issued for a period after the last completed month, the
\* limit computed when the run started, whatever cursor the run loaded.
C18_NoFetchBeyondLimit ==
    pc = "fetch" => ~beyond_limit(progress.current_year, progress.current_month, limit)

\* C19: when the streak of periods that returned items and inserted no new
\* row reaches the threshold, the run leaves the loop at that period with the
\* anomaly recorded as its reason and the anomaly message sent, a message sent
\* on no other path, and sends no further request.
C19_AnomalyStopsRun ==
    /\ [][(pc = "advance" /\ consecutive_zero_inserts >= ZERO_INSERT_ALARM /\ pc' # "dead")
            => /\ pc' = "upload"
               /\ stopReason' = "anomaly"
               /\ "anomaly" \in slack'
               /\ "anomaly" \in errors']_vars
    /\ [][stopReason = "anomaly" => (sent' = sent \/ pc' \in {"boot", "dead"})]_vars
    /\ [][("anomaly" \in slack' /\ "anomaly" \notin slack) => stopReason' = "anomaly"]_vars
    /\ [][consecutive_zero_inserts' <= ZERO_INSERT_ALARM]_vars

\* The run has just left the loop on the streak.
C19_Witness ==
    /\ pc = "upload"
    /\ stopReason = "anomaly"
    /\ "anomaly" \in slack
    /\ consecutive_zero_inserts = ZERO_INSERT_ALARM

\* C20: a run whose checkpoint cannot be loaded ends there: main() leaves
\* with a failure and the stored checkpoint as it was, and a start of
\* collect_with_resume() that finds no progress file does not go on to the
\* collection with a checkpoint of default values.
C20_LoadFailureIsFatal ==
    /\ [][(pc = "boot" /\ stopReason' = "no_progress")
            => (pc' = "exit" /\ exitCode' = 1 /\ drive' = drive /\ sent' = sent)]_vars
    /\ [][(rpc = "boot" /\ rpc' # "boot" /\ PROGRESS_FILE = NoFile)
            => (rpc' = "crashed" /\ rprogress' = NoFile)]_vars

\* C21: a run that has exited has exit code 0 exactly when it stopped on the
\* quota or at the end of the range, and a code other than 0 when it stopped
\* on a provider rate limit, on the cursor anomaly, on a failed load of the
\* checkpoint or on a missing credential.
C21_ExitCodeTellsFatal ==
    pc = "exit" =>
        /\ exitCode = 0 <=> stopReason \in {"quota", "range"}
        /\ stopReason \in {"rate_limit", "anomaly", "no_progress", "no_drive", "no_api_key"}
              => exitCode # 0

\* C22 as stated: whatever ends the run, the step that exits follows the
\* attempt to save the checkpoint to the remote store.
C22_SaveOnEveryPath ==
    [][(pc' = "exit" /\ pc # "exit") => pc = "notify"]_vars

\* C22 amended: every exit of a run sends a notification; a run that has
\* loaded its checkpoint exits only after the step that follows the upload,
\* and that step is reached only through an upload that either wrote the
\* remote store or recorded its failure; a run that fails before the
\* checkpoint is loaded sends the failure message and saves nothing.
C22_SaveAndNotify ==
    /\ [][(pc' = "exit" /\ pc # "exit") => (slack' \cap {"summary", "fatal"}) # {}]_vars
    /\ [][(pc' = "exit" /\ pc # "exit" /\ progress # None) => pc = "notify"]_vars
    /\ [][(pc' = "notify" /\ pc # "notify")
            => /\ pc = "upload"
               /\ drive' = progress' \/ "upload_failed" \in errors']_vars
    /\ [][(pc' = "exit" /\ pc = "boot") => (drive' = drive /\ progress' = None)]_vars

\* A run stopped by a rate-limit error has saved its checkpoint and sent the summary.
C22_Witness ==
    /\ pc = "exit"
    /\ stopReason = "rate_limit"
    /\ "summary" \in slack
    /\ drive = progress

\* C23 as stated: whatever ended the run, the local backup has been written
\* when the run has exited.
C23_BackupOnEveryPath ==
    pc = "exit" => progress_backup # None

\* C23 amended: a run that holds a checkpoint when it exits has written it to
\* the local backup, cursor and counters as they were at the exit, whether
\* or not the remote save succeeded; a run that failed before it loaded a
\* checkpoint writes no backup.
C23_BackupHoldsCheckpoint ==
    pc = "exit" =>
        IF progress # None THEN progress_backup = progress ELSE progress_backup = None

\* The remote save failed after the cursor had moved and the backup holds the cursor.
C23_Witness ==
    /\ pc = "exit"
    /\ "upload_failed" \in errors
    /\ progress_backup = progress
    /\ Cursor(progress_backup) # Cursor(drive)

\* C24: a send of the notifier that fails (no token, an exception of the
\* transport, a reply that is not ok) raises nothing into
\* collect_with_resume(): the only start that ends in an exception is the
\* one whose checkpoint names no category of the list, a start that goes on
\* has the cursor and the counters of the loaded checkpoint, and the quota
\* stop saves the checkpoint and ends the run as a quota stop.
C24_NotifierNeverAborts ==
    /\ [][(rpc' = "crashed" /\ rpc # "crashed")
            => (rpc = "boot" /\ load_progress(PROGRESS_FILE, today).current_job \notin TaskSet)]_vars
    /\ [][(rpc = "boot" /\ rpc' # "boot"
              /\ load_progress(PROGRESS_FILE, today).current_job \in TaskSet)
            => /\ rpc' = "category"
               /\ rprogress' = load_progress(PROGRESS_FILE, today)
               /\ name_idx' = TaskIndex(rprogress'.current_job)
               /\ PROGRESS_FILE' = PROGRESS_FILE]_vars
    /\ [][(rpc = "page" /\ rpc' \notin {"page", "month", "dead"})
            => (rpc' = "done" /\ rstop' = "quota" /\ PROGRESS_FILE' = rprogress)]_vars

\* The start message was not delivered and the run is fetching.
C24_Witness ==
    /\ thread_ts = "None"
    /\ "start" \in rslack
    /\ rpc = "page"
    /\ rsent > 0

\* C25: total_collected never decreases while a run holds its checkpoint, an
\* insert raises it by the number of rows the table newly holds, and no other
\* step of the loop changes it.
C25_TotalCountsPersisted ==
    /\ [][(pc = "insert" /\ pc' = "advance")
            => progress'.total_collected - progress.total_collected = Cardinality(db' \ db)]_vars
    /\ [][(pc \in {"loop", "fetch", "advance", "upload", "notify"} /\ pc' # "dead")
            => progress'.total_collected = progress.total_collected]_vars

\* C26: the file of a (category, year) only grows: after any step every file
\* still exists and begins with the pages it held before the step.
C26_YearFileAppendOnly ==
    [][\A f \in files :
          \E g \in files' :
             /\ g.name = f.name
             /\ g.year = f.year
             /\ Len(g.data) >= Len(f.data)
             /\ SubSeq(g.data, 1, Len(f.data)) = f.data]_vars

\* C27: a list of rows inserted a second time leaves the table as it was and
\* the second call returns 0.
C27_SecondInsertIsEmpty ==
    tblState = "twice" => (tblTable = tblBefore /\ tblReturned = 0)

\* Rows of two batches with a key the table did not hold have gone in twice.
C27_Witness ==
    /\ tblState = "twice"
    /\ Len(tblRows) > page_size
    /\ \E i \in 1..Len(tblRows) : tblRows[i] = MaxTableKey
    /\ tblReturned = 0

\* C28: whatever the rows, more than one batch of them and keys old and new
\* among them included, the call returns the number of keys the table gained.
C28_ReturnsRowsInserted ==
    tblState \in {"once", "twice"} => tblReturned = Cardinality(tblTable \ tblBefore)

\* C29: while and after a checkpoint is saved, a slot that held a checkpoint
\* holds the checkpoint it held or the one being saved, whole, and is never
\* empty: the Drive folder during upload_progress(), the progress row after
\* save_progress.
C29_SlotNeverAbsent ==
    /\ (upPc # "off" /\ upPrev # <<>>) =>
          /\ upRemote # <<>>
          /\ \A i \in 1..Len(upRemote) : upRemote[i] \in SeqKeys(upPrev) \cup {upLocal}
    /\ (dbSaves > 0 /\ dbPrev # 0) => (dbRow # 0 /\ dbRow \in {dbPrev, dbNew})

\* C30: a reply whose result code reports a fault of the server ("05") makes
\* the fetcher ask for the same page again while attempts are left, and when
\* none is left the fetch ends with the items of the earlier pages.
C30_TransientCodeRetried ==
    [][(sent' = sent + 1 /\ lastReply'.code = "05") =>
          IF attempt < max_retries
          THEN /\ attempt' = attempt + 1
               /\ page_no' = page_no
               /\ all_items' = all_items
               /\ pc' = "fetch"
          ELSE /\ all_items' = all_items
               /\ pc' \in {"insert", "advance"}
               /\ periodStatus' = "partial"]_vars

\* C31: a reply with a malformed body is not asked for again: the fetch ends
\* at that page with the items of the earlier pages, and the calls charged
\* for the period are the requests sent for it.
C31_MalformedBodyEndsFetch ==
    [][(sent' = sent + 1 /\ lastReply'.code = "malformed") =>
          /\ pc' = IF all_items = <<>> THEN "advance" ELSE "insert"
          /\ all_items' = all_items
          /\ page_no' = page_no
          /\ periodStatus' = "partial"
          /\ progress'.daily_api_calls - callsAtTop = sentPeriod']_vars

\* C32: the rows an insert step hands to the table are the fetched items
\* that carry a natural key and no others, so the table never holds a row
\* without one.
C32_OnlyKeyedRowsReachSink ==
    /\ [](0 \notin db)
    /\ [][(pc = "insert" /\ pc' = "advance" /\ periodStatus' # "insert_failed")
            => db' = db \cup {all_items[i] : i \in {j \in 1..Len(all_items) : all_items[j] # 0}}]_vars

\* A period with an item without a key and an item with one has been inserted.
C32_Witness ==
    /\ pc = "advance"
    /\ periodStatus # "insert_failed"
    /\ \E i \in 1..Len(all_items) : all_items[i] = 0
    /\ \E i \in 1..Len(all_items) : all_items[i] # 0 /\ all_items[i] \in db

\* C33: a call through safe_api_call never lets an exception out: it ends
\* with the result of the wrapped function when an invocation succeeded and
\* with default_value otherwise, whatever the invocations raised.
C33_SafeCallNeverRaises ==
    rtSafe =>
        /\ rtState # "raised"
        /\ rtState = "returned" =>
              /\ rtHistory # <<>>
              /\ rtResult = IF rtHistory[Len(rtHistory)] = NoError THEN "value" ELSE "default"

\* safe_api_call has returned default_value after an error that is not
\* retried, following one that was.
C33_Witness ==
    /\ rtSafe
    /\ rtState = "returned"
    /\ rtResult = "default"
    /\ Len(rtHistory) = 2
    /\ rtHistory[1].cls = "TimeoutError"
    /\ rtHistory[2].cls = "ValueError"

\* C34: the anomaly alarm fires on a streak of at least ZERO_INSERT_ALARM
\* periods, and the streak is one of periods in a row that returned items
\* and inserted none: a period whose fetch returned nothing or raised an
\* error is not counted and ends the streak, so the count starts again.
C34_StreakIsUnbroken ==
    /\ [][("anomaly" \in slack' /\ "anomaly" \notin slack)
            => consecutive_zero_inserts >= ZERO_INSERT_ALARM]_vars
    /\ [][(pc = "fetch" /\ pc' = "advance")
            => consecutive_zero_inserts' = 0]_vars

\* C35: when a run of main() has left the loop because the range is complete,
\* no period of any category with a month up to the limit lies at or after
\* the cursor in the order of the visits: all of them are behind it.
C35_RangeCompleteLeavesNothing ==
    (pc \in {"upload", "notify", "exit"} /\ stopReason = "range")
        => \A job \in JobSet, year \in FirstYear..NowYear, month \in 1..12 :
              ~beyond_limit(year, month, limit)
                  => Rank(<<job, year, month>>) < Rank(Cursor(progress))

\* C36: from any checkpoint with a listed category and a month of the
\* calendar the loop of main() ends, also when no pass consumes a call: a
\* pass that does not leave the loop moves the cursor strictly forward, and
\* the loop is left in the end.
C36_LoopTerminates ==
    /\ [][(pc = "loop" /\ pc' = "loop")
            => Rank(Cursor(progress')) > Rank(Cursor(progress))]_vars
    /\ <>(pc = "upload")

\* The loop has ended on the range test after a pass that raised and
\* consumed no call.
C36_Witness ==
    /\ pc = "upload"
    /\ stopReason = "range"
    /\ progress.daily_api_calls = 0
    /\ errors = {"api_error"}
    /\ db = {}
    /\ passed = <<jobs[1], NowYear, NowMonth - 1>>
    /\ Cursor(progress) = <<jobs[1], NowYear, NowMonth>>

\* C37: a call of a function wrapped by retry_on_error(max_retries = n)
\* invokes the function at most n + 1 times and ends: with the result of the
\* first invocation that succeeds, or raising the error of the last
\* invocation, which is an error that is not retried or the error of
\* invocation n + 1.
C37_RetryIsBounded ==
    /\ [](Len(rtHistory) <= rtMax + 1)
    /\ <>(rtState \in {"returned", "raised"})
    /\ []((~rtSafe /\ rtState = "returned") =>
             /\ rtResult = "value"
             /\ rtHistory[Len(rtHistory)] = NoError
             /\ \A i \in 1..(Len(rtHistory) - 1) : rtHistory[i] # NoError)
    /\ []((~rtSafe /\ rtState = "raised") =>
             /\ rtHistory[Len(rtHistory)] # NoError
             /\ rtResult = rtHistory[Len(rtHistory)].cls
             /\ \/ ~should_retry(rtHistory[Len(rtHistory)], 0, 1)
                \/ Len(rtHistory) = rtMax + 1)

\* The wrapper has raised a retryable error after using up its retries.
C37_Witness ==
    /\ ~rtSafe
    /\ rtState = "raised"
    /\ rtMax = MaxRetries
    /\ Len(rtHistory) = rtMax + 1
    /\ rtHistory[Len(rtHistory)].cls = "NetworkError"
    /\ rtResult = "NetworkError"

\* The failures after which the function is invoked again: a network error,
\* a timeout, an HTTP error with a retryable status, and the rate-limit error
\* that handle_http_response raises for status 429.
RetryableFailure(e) ==
    \/ e.cls \in {"NetworkError", "TimeoutError", "RateLimitError"} \cup RETRYABLE_REQUESTS_ERRORS
    \/ e.cls = "HTTPError" /\ e.status_code \in {408, 429, 500, 502, 503, 504}

FinalFailure(e) ==
    \/ e.cls \in {"AuthenticationError", "ValidationError", "ParseError", "APIResponseError"}
    \/ e.cls = "HTTPError" /\ e.status_code \notin {408, 429, 500, 502, 503, 504}

C39_CheckpointWellFormed ==
    /\ PROGRESS_FILE # NoFile =>
          /\ PROGRESS_FILE.current_job \in TaskSet
          /\ PROGRESS_FILE.current_month \in 1..12
    /\ \A p \in {localFile, drive} :
          p # None => (p.current_job \in JobSet /\ p.current_month \in 1..12)

\* C40: a rate-limit error raised in the loop, by the client's own limit
\* test or by a reply, ends the loop in that step with the cursor and
\* total_collected as they were; the run sends no further request, and it
\* leaves the upload step only with the checkpoint uploaded or the failure
\* of the upload recorded.
C40_RateLimitStopsLoop ==
    /\ [][(pc = "loop" /\ progress.daily_api_calls < MAX_API_CALLS /\ clientCalls >= daily_limit
              /\ validate_params(progress.current_job, progress.current_year,
                                 progress.current_month)
              /\ pc' # "dead")
            => stopReason' = "rate_limit"]_vars
    /\ [][(stopReason' = "rate_limit" /\ stopReason # "rate_limit")
            => /\ pc' = "upload"
               /\ Cursor(progress') = Cursor(progress)
               /\ progress'.total_collected = progress.total_collected
               /\ "rate_limit" \in errors']_vars
    /\ [][stopReason = "rate_limit"
            => (lastFetched' = lastFetched /\ sent' = sent) \/ pc' \in {"boot", "dead"}]_vars
    /\ [][(stopReason = "rate_limit" /\ pc = "upload" /\ pc' \notin {"upload", "dead"})
            => /\ pc' = "notify"
               /\ Cursor(progress') = Cursor(progress)
               /\ drive' = progress' \/ "upload_failed" \in errors']_vars

\* The client's limit test has ended the loop after a period was passed, and
\* the upload after it failed.
C40_Witness ==
    /\ pc = "notify"
    /\ stopReason = "rate_limit"
    /\ clientCalls >= daily_limit
    /\ passed # NoPeriod
    /\ "upload_failed" \in errors
    /\ Cursor(progress) # Cursor(drive)

====
